---- MODULE Spec2Model ----
(***************************************************************************)
(* A model of the two scripts of tokenizer-lab:                            *)
(*   verify_unk_bert.py  the UNK diagnostic (test_tokenizer and main)      *)
(*   create_token.py     the slow -> fast tokenizer conversion smoke test  *)
(*                                                                         *)
(* The transformers library is the environment.  What a call into it       *)
(* returns, and whether it raises, is drawn from small sets.  The float    *)
(* unk_percentage is kept as the exact fraction <<numerator, denominator>>.*)
(*                                                                         *)
(* Four specifications share the variables:                                *)
(*   SpecTok   one call of test_tokenizer on an input drawn by Init        *)
(*   Spec      a run of verify_unk_bert.py as a script                     *)
(*   SpecDiag  both of the above, side by side                             *)
(*   SpecConv  a run of create_token.py                                    *)
(***************************************************************************)
EXTENDS Integers, Sequences, FiniteSets, TLC

VARIABLES
    pc,             \* position of verify_unk_bert.py
    idx,            \* 1-based index of the test case the for loop takes next
    results,        \* main's results list
    out,            \* lines printed so far (either script)
    exit_code,      \* <<>> while the process runs, then <<its exit status>>
    processed,      \* history: <<case index, raised>> of every case the loop has taken
    arg,            \* SpecTok: the input of the call of test_tokenizer
    ret,            \* SpecTok: the outcome of the call
    cpc,            \* position of create_token.py
    slow_tokenizer, \* create_token.py's module-level names
    fast_tokenizer,
    disk,           \* content of ./muril-fast-tokenizer
    tokenizer,
    model,
    inputs,
    outputs,
    trail           \* history: the statements of create_token.py that completed

vars == <<pc, idx, results, out, exit_code, processed, arg, ret,
          cpc, slow_tokenizer, fast_tokenizer, disk, tokenizer, model, inputs, outputs,
          trail>>

diagVars == <<pc, idx, results, processed>>
tokVars  == <<arg, ret>>
convVars == <<cpc, slow_tokenizer, fast_tokenizer, disk, tokenizer, model, inputs, outputs,
              trail>>

----------------------------------------------------------------------------
(* Bounds of the model *)

MaxTokensMain == 1      \* longest encoding a test case of main gets
MaxTokens == 22         \* longest encoding test_tokenizer gets in SpecTok
MaxPeriod == 3          \* SpecTok places unknown ids every 1..MaxPeriod positions
MaxVersion == 2         \* distinct contents a tokenizer or model artifact can have

(* Program constants *)

ListLimit == 20         \* encoded[:20], tokens[:20], len(tokens) > 20

----------------------------------------------------------------------------
(* The tokenizer handle, as far as the scripts use it *)

None == "None"

\* id -> token string of the vocabulary; ids are 0-based
Vocab == [i \in 0..2 |-> CASE i = 0 -> "[UNK]" [] i = 1 -> "hello" [] i = 2 -> "##lo"]

Ids == DOMAIN Vocab

\* a BERT tokenizer with unk_token "[UNK]", and one that declares no unk_token
BertLike == [unk_token |-> "[UNK]", unk_token_id |-> 0]
NoUnk    == [unk_token |-> None,    unk_token_id |-> -1]

Tokenizers == {BertLike, NoUnk}

\* tokenizer.convert_ids_to_tokens(encoded): one token per id, in order
convert_ids_to_tokens(encoded) == [i \in 1..Len(encoded) |-> Vocab[encoded[i]]]

\* s[:n]
Prefix(s, n) == SubSeq(s, 1, IF Len(s) < n THEN Len(s) ELSE n)

Min(a, b) == IF a < b THEN a ELSE b

----------------------------------------------------------------------------
(* test_tokenizer *)

RECURSIVE CountEq(_, _)
CountEq(tokens, t) ==
    IF tokens = <<>> THEN 0
    ELSE (IF Head(tokens) = t THEN 1 ELSE 0) + CountEq(Tail(tokens), t)

\* a mutant: the total counts the distinct tokens
TokenCount_Distinct(tokens) == Cardinality({ tokens[i] : i \in DOMAIN tokens })

\* len(tokens)
TokenCount(tokens) == Len(tokens)

\* unk_count = sum(1 for t in tokens if t == unk_token)
UnkCount(tokens, unk_token) == CountEq(tokens, unk_token)

\* a mutant: the fraction is not scaled to a percentage
UnkPercentage_Unscaled(unk_count, n) == IF n # 0 THEN <<unk_count, n>> ELSE <<0, 1>>

\* unk_percentage = (unk_count / len(tokens) * 100) if tokens else 0
UnkPercentage(unk_count, n) == IF n # 0 THEN <<unk_count * 100, n>> ELSE <<0, 1>>

\* f"{x:.{d}f}" of a non-negative fraction: x rounded to d decimals (ties to even),
\* given in units of 10^-d
FormatFixed(x, d) ==
    LET scale == IF d = 1 THEN 10 ELSE 100
        num   == x[1] * scale
        q     == num \div x[2]
        r2    == 2 * (num % x[2])
    IN  IF r2 > x[2] \/ (r2 = x[2] /\ q % 2 = 1) THEN q + 1 ELSE q

\* print(f"  [{i}] ID={token_id:5d} -> '{token}'{unk_marker}")
TokenLine(i, token_id, token, tk) ==
    <<"tok", i, token_id, token, token = tk.unk_token>>

\* a mutant: the listing is not cut at 20
ListedCount_All(encoded, tokens) == Min(Len(encoded), Len(tokens))

\* number of pairs of zip(encoded[:20], tokens[:20])
ListedCount(encoded, tokens) ==
    Min(Len(Prefix(encoded, ListLimit)), Len(Prefix(tokens, ListLimit)))

\* the for loop over enumerate(zip(encoded[:20], tokens[:20])); i is 0-based
Listing(encoded, tokens, tk) ==
    [k \in 1..ListedCount(encoded, tokens) |->
        TokenLine(k - 1, encoded[k], tokens[k], tk)]

\* if len(tokens) > 20: print(f"  ... ({len(tokens) - 20} more tokens)")
MoreLine(tokens) ==
    IF TokenCount(tokens) > ListLimit
    THEN << <<"more", TokenCount(tokens) - ListLimit>> >>
    ELSE <<>>

\* the five prints that open test_tokenizer
HeaderLines(model_name, text, language) ==
    << <<"rule">>, <<"model", model_name>>, <<"language", language>>,
       <<"text", text>>, <<"rule">> >>

NoResult == [model |-> "", language |-> "", token_count |-> 0,
             unk_count |-> 0, unk_percentage |-> <<0, 1>>]

\* What the library does during one call: from_pretrained and encode each
\* return or raise.  fail is "none", "load" or "encode".
World(fail, tk, encoded) == [fail |-> fail, tokenizer |-> tk, encoded |-> encoded]

\* One call of test_tokenizer in the world w: the lines it prints, and either
\* the record it returns or the exception that leaves it.
test_tokenizer(model_name, text, language, w) ==
    LET tk         == w.tokenizer
        encoded    == w.encoded
        tokens     == convert_ids_to_tokens(encoded)
        unk_count  == UnkCount(tokens, tk.unk_token)
        unk_percentage == UnkPercentage(unk_count, TokenCount(tokens))
        head       == HeaderLines(model_name, text, language)
        unkLine    == << <<"unk_token", tk.unk_token, tk.unk_token_id>> >>
        report     == << <<"results">>,
                         <<"total", TokenCount(tokens)>>,
                         <<"unk_count", unk_count>>,
                         <<"unk_pct", FormatFixed(unk_percentage, 2)>>,
                         <<"first20">> >>
    IN  CASE w.fail = "load" ->
               [raised |-> TRUE, error |-> "load", lines |-> head, result |-> NoResult]
          [] w.fail = "encode" ->
               [raised |-> TRUE, error |-> "encode", lines |-> head \o unkLine,
                result |-> NoResult]
          [] OTHER ->
               [raised |-> FALSE, error |-> "",
                lines  |-> head \o unkLine \o report
                           \o Listing(encoded, tokens, tk) \o MoreLine(tokens),
                result |-> [model |-> model_name, language |-> language,
                            token_count |-> TokenCount(tokens),
                            unk_count |-> unk_count,
                            unk_percentage |-> unk_percentage]]

----------------------------------------------------------------------------
(* SpecTok: one call of test_tokenizer *)

\* encodings of length n whose id is the unknown id at every p-th position
\* (offset r), and alternates between the two known ids elsewhere; p = 0
\* places no unknown id
PatternEncoding(n, p, r) ==
    [i \in 1..n |-> IF p > 0 /\ (i + r) % p = 0 THEN 0 ELSE 1 + (i % 2)]

TokEncodings ==
    { PatternEncoding(n, p, r) : n \in 0..MaxTokens, p \in 0..MaxPeriod, r \in 0..1 }

TokWorlds ==
    { World(f, tk, e) : f \in {"none", "load", "encode"}, tk \in Tokenizers,
                        e \in TokEncodings }

NoRet == [raised |-> FALSE, error |-> "", lines |-> <<>>, result |-> NoResult]

DiagIdle ==
    /\ pc = "idle" /\ idx = 0 /\ results = <<>> /\ processed = <<>>

\* a name of create_token.py that is not bound yet, a directory that does not exist
Unset == [kind |-> "unset"]

ConvIdle ==
    /\ cpc = "idle"
    /\ slow_tokenizer = Unset /\ fast_tokenizer = Unset /\ disk = Unset
    /\ tokenizer = Unset /\ model = Unset /\ inputs = Unset /\ outputs = Unset
    /\ trail = <<>>

TokIdle == arg = World("none", BertLike, <<>>) /\ ret = NoRet

InitTok ==
    /\ DiagIdle /\ ConvIdle
    /\ out = <<>> /\ exit_code = <<>>
    /\ arg \in TokWorlds
    /\ ret = NoRet

\* the call returns or raises
CallTestTokenizer ==
    /\ pc = "idle"
    /\ ret = NoRet
    /\ ret' = test_tokenizer("bert-base-uncased", "text", "language", arg)
    /\ out' = out \o ret'.lines
    /\ UNCHANGED <<arg, exit_code, diagVars, convVars>>

NextTok == CallTestTokenizer

SpecTok == InitTok /\ [][NextTok]_vars

----------------------------------------------------------------------------
(* Spec: verify_unk_bert.py run as a script *)

test_cases ==
    << [model |-> "bert-base-uncased", text |-> "text-hindi",
        language |-> "Hindi (Devanagari)", expect_unk |-> TRUE],
       [model |-> "bert-base-uncased", text |-> "text-kannada",
        language |-> "Kannada", expect_unk |-> TRUE],
       [model |-> "bert-base-uncased", text |-> "text-tamil",
        language |-> "Tamil", expect_unk |-> TRUE],
       [model |-> "bert-base-uncased", text |-> "Hello world. This is a test.",
        language |-> "English", expect_unk |-> FALSE],
       [model |-> "bert-base-multilingual-uncased", text |-> "text-hindi",
        language |-> "Hindi (Devanagari)", expect_unk |-> FALSE] >>

MainEncodings == UNION { [1..n -> 0..1] : n \in 0..MaxTokensMain }

MainWorlds ==
    { World(f, tk, e) : f \in {"none"}, tk \in {BertLike}, e \in MainEncodings }
    \cup { World("load", BertLike, <<>>), World("encode", BertLike, <<>>) }

Init ==
    /\ pc = "import" /\ idx = 0 /\ results = <<>> /\ processed = <<>>
    /\ out = <<>> /\ exit_code = <<>>
    /\ TokIdle /\ ConvIdle

\* from transformers import AutoTokenizer succeeds
ImportOk ==
    /\ pc = "import"
    /\ pc' = "main"
    /\ UNCHANGED <<idx, results, out, exit_code, processed, tokVars, convVars>>

\* the import raises ImportError: two prints and exit(1)
ImportError ==
    /\ pc = "import"
    /\ out' = out \o << <<"not_installed">>, <<"install_hint">> >>
    /\ exit_code' = <<1>>
    /\ pc' = "exited"
    /\ UNCHANGED <<idx, results, processed, tokVars, convVars>>

\* the import raises something else: nothing catches it
ImportCrash ==
    /\ pc = "import"
    /\ out' = out \o << <<"traceback">> >>
    /\ exit_code' = <<1>>
    /\ pc' = "exited"
    /\ UNCHANGED <<idx, results, processed, tokVars, convVars>>

\* main() up to the for loop
MainStart ==
    /\ pc = "main"
    /\ out' = out \o << <<"title">>, <<"rule">> >>
    /\ results' = <<>>
    /\ idx' = 1
    /\ pc' = "loop"
    /\ UNCHANGED <<exit_code, processed, tokVars, convVars>>

\* a mutant: a new result is put in front of the list
ResultsAfter_Prepend(res, test_case, r) ==
    IF r.raised THEN res
    ELSE <<r.result @@ [expect_unk |-> test_case.expect_unk]>> \o res

\* the try block's effect on results: result['expect_unk'] = ...; results.append(result),
\* skipped when test_tokenizer raised
ResultsAfter(res, test_case, r) ==
    IF r.raised THEN res
    ELSE Append(res, r.result @@ [expect_unk |-> test_case.expect_unk])

\* a mutant: the exception is not caught and unwinds main
AfterCase_Uncaught(r, i) ==
    IF r.raised THEN [pc |-> "exited", exit_code |-> <<1>>, idx |-> i]
    ELSE [pc |-> "loop", exit_code |-> <<>>, idx |-> i + 1]

\* where control goes after the body of the loop: except Exception ... continue
AfterCase(r, i) == [pc |-> "loop", exit_code |-> <<>>, idx |-> i + 1]

\* except Exception as e: print(f"\n ERROR: {e}")
ErrorLines(r) == IF r.raised THEN << <<"error", r.error>> >> ELSE <<>>

\* one iteration of for test_case in test_cases
ProcessCase ==
    /\ pc = "loop"
    /\ idx <= Len(test_cases)
    /\ \E w \in MainWorlds :
         LET test_case == test_cases[idx]
             r    == test_tokenizer(test_case.model, test_case.text,
                                     test_case.language, w)
             next == AfterCase(r, idx)
         IN  /\ out' = out \o r.lines \o ErrorLines(r)
             /\ results' = ResultsAfter(results, test_case, r)
             /\ processed' = Append(processed, <<idx, r.raised>>)
             /\ pc' = next.pc
             /\ exit_code' = next.exit_code
             /\ idx' = next.idx
    /\ UNCHANGED <<tokVars, convVars>>

\* a mutant: PASS whenever unknown tokens were found
Status_HasUnk(result) == IF result.unk_count > 0 THEN "PASS" ELSE "FAIL"

\* has_unk = result['unk_count'] > 0
\* status = PASS if has_unk == result['expect_unk'] else FAIL
Status(result) ==
    LET has_unk == result.unk_count > 0
    IN  IF has_unk = result.expect_unk THEN "PASS" ELSE "FAIL"

\* the four prints of the summary for one result
SummaryEntry(result) ==
    LET expect  == IF result.expect_unk THEN "Should have UNK" ELSE "Should NOT have UNK"
        has_unk == result.unk_count > 0
    IN  << <<"status", Status(result), result.model, result.language>>,
           <<"counts", result.token_count, result.unk_count,
             FormatFixed(result.unk_percentage, 1)>>,
           <<"expected", expect, IF has_unk THEN "UNK found" ELSE "No UNK">>,
           <<"blank">> >>

\* for result in results: ...
RECURSIVE SummaryLines(_)
SummaryLines(res) ==
    IF res = <<>> THEN <<>>
    ELSE SummaryEntry(Head(res)) \o SummaryLines(Tail(res))

\* a mutant: the script reports failed expectations in its exit status
FinalExitCode_FailOnMismatch(res) ==
    IF \E k \in 1..Len(res) : Status(res[k]) = "FAIL" THEN <<1>> ELSE <<0>>

\* main() returns and the interpreter reaches the end of the script
FinalExitCode(res) == <<0>>

\* the rest of main() after the loop, and the end of the script
Summary ==
    /\ pc = "loop"
    /\ idx > Len(test_cases)
    /\ out' = out \o << <<"rule">>, <<"summary">>, <<"rule">> >>
                  \o SummaryLines(results)
                  \o << <<"rule">>, <<"complete">>, <<"compare_hint">>, <<"expect_hint">> >>
    /\ exit_code' = FinalExitCode(results)
    /\ pc' = "exited"
    /\ UNCHANGED <<idx, results, processed, tokVars, convVars>>

Next == ImportOk \/ ImportError \/ ImportCrash \/ MainStart \/ ProcessCase \/ Summary

Spec == Init /\ [][Next]_vars

\* the script and the single call side by side
InitDiag == Init \/ InitTok

NextDiag == Next \/ NextTok

SpecDiag == InitDiag /\ [][NextDiag]_vars

----------------------------------------------------------------------------
(* SpecConv: create_token.py *)

Versions == 1..MaxVersion

HubName == "google/muril-base-cased"
LocalDir == "./muril-fast-tokenizer"
SampleText == "text-hindi-sentence"

\* the statements of the script, in the order of the file
Statements ==
    << "import", "load_slow", "load_fast", "save", "reload", "load_model",
       "encode", "forward", "print_inputs", "print_outputs" >>

StatementIndex(st) == CHOOSE k \in 1..Len(Statements) : Statements[k] = st

\* a mutant: the tokenizer is read back from the directory before it is saved there
Following_ReloadFirst(st) ==
    CASE st = "load_fast"  -> "reload"
      [] st = "reload"     -> "save"
      [] st = "save"       -> "load_model"
      [] st = "print_outputs" -> "end"
      [] OTHER -> Statements[StatementIndex(st) + 1]

\* the statement that runs after st has completed
Following(st) ==
    IF st = "print_outputs" THEN "end" ELSE Statements[StatementIndex(st) + 1]

\* the statements that call into the library and can raise
Fallible ==
    { "import", "load_slow", "load_fast", "save", "reload", "load_model",
      "encode", "forward" }

\* a mutant: a failure is swallowed and the script goes on with the next statement
OnFailure_Continue(st) == [cpc |-> Following(st), exit_code |-> <<>>]

\* an exception nothing catches: traceback, exit status 1
OnFailure(st) == [cpc |-> "crashed", exit_code |-> <<1>>]

\* a tokenizer handle: which class built it, where it was read from, which run
\* of the script wrote what it was read from ("hub" for the hub), what it holds
TokenizerHandle(class, source, written_by, version) ==
    [kind |-> "tokenizer", class |-> class, source |-> source,
     written_by |-> written_by, version |-> version]

\* the content of ./muril-fast-tokenizer: the run that wrote it and what it holds
Directory(run, version) == [kind |-> "directory", run |-> run, version |-> version]

InitialDisks == {Unset} \cup { Directory("earlier", v) : v \in Versions }

\* the handle that line 18 calls: tokenizer(text, return_tensors="pt")
Encoder == tokenizer

InitConv ==
    /\ DiagIdle /\ TokIdle
    /\ out = <<>> /\ exit_code = <<>>
    /\ cpc = "import"
    /\ slow_tokenizer = Unset /\ fast_tokenizer = Unset
    /\ disk \in InitialDisks
    /\ tokenizer = Unset /\ model = Unset /\ inputs = Unset /\ outputs = Unset
    /\ trail = <<>>

\* st completed: control moves on
Completed(st) ==
    /\ cpc' = Following(st)
    /\ trail' = Append(trail, st)
    /\ exit_code' = exit_code

\* from transformers import BertTokenizer, BertTokenizerFast, BertModel
Import ==
    /\ cpc = "import"
    /\ Completed("import")
    /\ UNCHANGED <<out, slow_tokenizer, fast_tokenizer, disk, tokenizer, model,
                   inputs, outputs, diagVars, tokVars>>

\* slow_tokenizer = BertTokenizer.from_pretrained("google/muril-base-cased")
LoadSlow ==
    /\ cpc = "load_slow"
    /\ \E v \in Versions : slow_tokenizer' = TokenizerHandle("BertTokenizer", HubName, "hub", v)
    /\ Completed("load_slow")
    /\ UNCHANGED <<out, fast_tokenizer, disk, tokenizer, model, inputs, outputs,
                   diagVars, tokVars>>

\* fast_tokenizer = BertTokenizerFast.from_pretrained("google/muril-base-cased")
LoadFast ==
    /\ cpc = "load_fast"
    /\ \E v \in Versions :
         fast_tokenizer' = TokenizerHandle("BertTokenizerFast", HubName, "hub", v)
    /\ Completed("load_fast")
    /\ UNCHANGED <<out, slow_tokenizer, disk, tokenizer, model, inputs, outputs,
                   diagVars, tokVars>>

\* fast_tokenizer.save_pretrained("./muril-fast-tokenizer")
Save ==
    /\ cpc = "save"
    /\ disk' = Directory("this", fast_tokenizer.version)
    /\ Completed("save")
    /\ UNCHANGED <<out, slow_tokenizer, fast_tokenizer, tokenizer, model, inputs,
                   outputs, diagVars, tokVars>>

\* tokenizer = BertTokenizerFast.from_pretrained("./muril-fast-tokenizer")
\* What the library builds from the files it finds is the library's business:
\* the handle records which run wrote the directory it was read from.
Reload ==
    /\ cpc = "reload"
    /\ disk.kind = "directory"
    /\ \E v \in Versions :
         tokenizer' = TokenizerHandle("BertTokenizerFast", LocalDir, disk.run, v)
    /\ Completed("reload")
    /\ UNCHANGED <<out, slow_tokenizer, fast_tokenizer, disk, model, inputs, outputs,
                   diagVars, tokVars>>

\* model = BertModel.from_pretrained("google/muril-base-cased")
LoadModel ==
    /\ cpc = "load_model"
    /\ \E v \in Versions : model' = [kind |-> "model", source |-> HubName, version |-> v]
    /\ Completed("load_model")
    /\ UNCHANGED <<out, slow_tokenizer, fast_tokenizer, disk, tokenizer, inputs,
                   outputs, diagVars, tokVars>>

\* inputs = tokenizer(text, return_tensors="pt")
Encode ==
    /\ cpc = "encode"
    /\ inputs' = [kind |-> "encoding", text |-> SampleText, by |-> Encoder]
    /\ Completed("encode")
    /\ UNCHANGED <<out, slow_tokenizer, fast_tokenizer, disk, tokenizer, model,
                   outputs, diagVars, tokVars>>

\* outputs = model(**inputs)
Forward ==
    /\ cpc = "forward"
    /\ outputs' = [kind |-> "output", model |-> model, of |-> inputs]
    /\ Completed("forward")
    /\ UNCHANGED <<out, slow_tokenizer, fast_tokenizer, disk, tokenizer, model,
                   inputs, diagVars, tokVars>>

\* print("Tokenized input:", inputs)
PrintInputs ==
    /\ cpc = "print_inputs"
    /\ out' = Append(out, <<"tokenized_input", inputs>>)
    /\ Completed("print_inputs")
    /\ UNCHANGED <<slow_tokenizer, fast_tokenizer, disk, tokenizer, model, inputs,
                   outputs, diagVars, tokVars>>

\* print("Model output (last hidden state):", outputs.last_hidden_state)
PrintOutputs ==
    /\ cpc = "print_outputs"
    /\ out' = Append(out, <<"model_output", outputs>>)
    /\ Completed("print_outputs")
    /\ UNCHANGED <<slow_tokenizer, fast_tokenizer, disk, tokenizer, model, inputs,
                   outputs, diagVars, tokVars>>

\* the end of the file: the interpreter exits with status 0
End ==
    /\ cpc = "end"
    /\ cpc' = "exited"
    /\ exit_code' = <<0>>
    /\ UNCHANGED <<out, slow_tokenizer, fast_tokenizer, disk, tokenizer, model, inputs,
                   outputs, trail, diagVars, tokVars>>

\* the statement at cpc raises: nothing is bound, the traceback is printed
Raise ==
    /\ cpc \in Fallible
    /\ LET after == OnFailure(cpc)
       IN  /\ cpc' = after.cpc
           /\ exit_code' = after.exit_code
    /\ out' = Append(out, <<"traceback", cpc>>)
    /\ UNCHANGED <<slow_tokenizer, fast_tokenizer, disk, tokenizer, model, inputs,
                   outputs, trail, diagVars, tokVars>>

NextConv ==
    \/ Import \/ LoadSlow \/ LoadFast \/ Save \/ Reload \/ LoadModel
    \/ Encode \/ Forward \/ PrintInputs \/ PrintOutputs \/ End \/ Raise

SpecConv == InitConv /\ [][NextConv]_vars

----------------------------------------------------------------------------
(* Properties of verify_unk_bert.py *)

LinesOfKind(lines, kind) == SelectSeq(lines, LAMBDA l : l[1] = kind)

HasLine(lines, kind) == \E k \in 1..Len(lines) : lines[k][1] = kind

\* main() was entered: its title is the first line printed
MainEntered == out # <<>> /\ out[1][1] = "title"

ImportFailed == out # <<>> /\ out[1][1] \in {"not_installed", "traceback"}

\* the indices of the cases the loop took without an exception, in the order taken
OkCases == LET ok == SelectSeq(processed, LAMBDA p : ~p[2])
           IN  [k \in 1..Len(ok) |-> ok[k][1]]

RaisedCases == { processed[k][1] : k \in { j \in 1..Len(processed) : processed[j][2] } }

\* the test case a result record names (model and language tell the five apart)
CaseOf(result) ==
    CHOOSE k \in 1..Len(test_cases) :
        /\ test_cases[k].model = result.model
        /\ test_cases[k].language = result.language

ResultCases == [k \in 1..Len(results) |-> CaseOf(results[k])]

ClosingBanner == << <<"rule">>, <<"complete">>, <<"compare_hint">>, <<"expect_hint">> >>

EndsWith(s, t) == Len(s) >= Len(t) /\ SubSeq(s, Len(s) - Len(t) + 1, Len(s)) = t

\* C1: whatever cases raise, the loop takes every case, the summary and the
\* closing banner are printed, and the results hold an entry for exactly the
\* cases that did not raise.
C1_CaseIndependence ==
    /\ pc = "loop" =>
         /\ Len(processed) = idx - 1
         /\ \A k \in 1..Len(processed) : processed[k][1] = k
         /\ { ResultCases[k] : k \in 1..Len(results) } = (1..(idx - 1)) \ RaisedCases
         /\ Len(results) = Cardinality((1..(idx - 1)) \ RaisedCases)
         /\ ENABLED Next
    /\ (pc = "exited" /\ ~ImportFailed) =>
         /\ MainEntered
         /\ Len(processed) = Len(test_cases)
         /\ \A k \in 1..Len(processed) : processed[k][1] = k
         /\ { ResultCases[k] : k \in 1..Len(results) } = (1..Len(test_cases)) \ RaisedCases
         /\ Len(results) = Len(test_cases) - Cardinality(RaisedCases)
         /\ HasLine(out, "summary")
         /\ EndsWith(out, ClosingBanner)
         /\ Len(LinesOfKind(out, "status")) = Len(results)
         /\ Len(LinesOfKind(out, "error")) = Cardinality(RaisedCases)

\* cases 1 and 4 raise, the others are processed and summarised
C1_Witness ==
    /\ pc = "exited"
    /\ Len(processed) = 5
    /\ RaisedCases = {1, 4}
    /\ Len(results) = 3
    /\ EndsWith(out, ClosingBanner)

\* C2: every summary entry is PASS exactly when (unk_count > 0) equals the
\* expect_unk flag of the test case that produced the result, FAIL otherwise.
C2_PassIffMatch ==
    (pc = "exited" /\ MainEntered) =>
        LET status == LinesOfKind(out, "status")
        IN  /\ Len(status) = Len(results)
            /\ Len(OkCases) = Len(results)
            /\ \A k \in 1..Len(results) :
                 LET observed == results[k].unk_count > 0
                     expected == test_cases[OkCases[k]].expect_unk
                 IN  /\ status[k][2] \in {"PASS", "FAIL"}
                     /\ status[k][2] = "PASS" <=> (observed = expected)

\* the four combinations of observed presence and expected flag in one summary
C2_Witness ==
    /\ pc = "exited"
    /\ OkCases = <<1, 2, 4, 5>>
    /\ results[1].unk_count > 0 /\ results[2].unk_count = 0
    /\ results[3].unk_count > 0 /\ results[4].unk_count = 0
    /\ LET status == LinesOfKind(out, "status")
       IN  [k \in 1..4 |-> status[k][2]] = <<"PASS", "FAIL", "FAIL", "PASS">>

\* the call of SpecTok returned a record
Returned == ret # NoRet /\ ~ret.raised

ArgTokens == convert_ids_to_tokens(arg.encoded)

ArgUnkPositions == { i \in DOMAIN ArgTokens : ArgTokens[i] = arg.tokenizer.unk_token }

\* C3: the percentage is (tokens equal to the unknown-token string) / (tokens) x 100,
\* and 0, without a division by zero, for the empty token sequence.
C3_Percentage ==
    Returned =>
        LET n == Len(ArgTokens)
            c == Cardinality(ArgUnkPositions)
            p == ret.result.unk_percentage
        IN  /\ p[2] # 0
            /\ n = 0 => p[1] = 0
            /\ n > 0 => p[1] * n = c * 100 * p[2]

\* some tokens, not all, are unknown
C3_Witness ==
    /\ Returned
    /\ Len(ArgTokens) = 3
    /\ Cardinality(ArgUnkPositions) = 1
    /\ ret.result.unk_percentage = <<100, 3>>

\* the empty token sequence: the percentage is 0
C3_EmptyReached ==
    Returned /\ ArgTokens = <<>> /\ ret.result.unk_percentage[1] = 0

WellFormed(result) ==
    /\ result.token_count >= 0
    /\ 0 <= result.unk_count
    /\ result.unk_count <= result.token_count
    /\ result.unk_percentage[2] > 0
    /\ 0 <= result.unk_percentage[1]
    /\ result.unk_percentage[1] <= 100 * result.unk_percentage[2]

\* C8: every record test_tokenizer returns and every entry of results has
\* token_count >= 0, 0 <= unk_count <= token_count and 0 <= unk_percentage <= 100.
C8_ResultBounds ==
    /\ Returned => WellFormed(ret.result)
    /\ \A k \in 1..Len(results) : WellFormed(results[k])

\* every token of a returned record is unknown: unk_count meets token_count
C8_Witness ==
    /\ Returned
    /\ ret.result.token_count = 5
    /\ ret.result.unk_count = 5
    /\ ret.result.unk_percentage = <<500, 5>>

\* an entry of results where every token is unknown
C8_ResultsReached ==
    \E k \in 1..Len(results) : results[k].token_count = 1 /\ results[k].unk_count = 1

\* C9: for n tokens the listing shows positions 0..min(n,20)-1 in order, each with
\* its id and token, marks exactly the listed tokens equal to the unknown-token
\* string, and the "more tokens" line appears exactly when n > 20, with n - 20.
C9_Listing ==
    Returned =>
        LET n      == Len(arg.encoded)
            listed == LinesOfKind(ret.lines, "tok")
            more   == LinesOfKind(ret.lines, "more")
        IN  /\ Len(listed) = Min(n, ListLimit)
            /\ \A k \in 1..Len(listed) :
                 listed[k] = <<"tok", k - 1, arg.encoded[k], Vocab[arg.encoded[k]],
                               k \in ArgUnkPositions>>
            /\ n > ListLimit  => more = << <<"more", n - ListLimit>> >>
            /\ n <= ListLimit => more = <<>>

\* 22 tokens, unknown ones inside and beyond the first 20
C9_Witness ==
    /\ Returned
    /\ Len(arg.encoded) = 22
    /\ 3 \in ArgUnkPositions /\ 21 \in ArgUnkPositions /\ 4 \notin ArgUnkPositions
    /\ Len(LinesOfKind(ret.lines, "tok")) = 20
    /\ LinesOfKind(ret.lines, "more") = << <<"more", 2>> >>

\* C6: exit code 1 and no test case processed when the import fails; otherwise
\* the script runs to the end and exits 0, whatever cases failed or raised.
C6_ExitCode ==
    /\ pc # "exited" => exit_code = <<>>
    /\ pc \in {"import", "main", "loop"} => ENABLED Next
    /\ (pc = "exited" /\ ImportFailed) =>
         /\ exit_code = <<1>>
         /\ processed = <<>> /\ results = <<>>
         /\ ~HasLine(out, "model")
    /\ (pc = "exited" /\ ~ImportFailed) =>
         /\ exit_code = <<0>>
         /\ Len(processed) = Len(test_cases)
         /\ EndsWith(out, ClosingBanner)

\* exit code 0 at the end of a run with a raised case and a FAIL in the summary
C6_Witness ==
    /\ pc = "exited"
    /\ exit_code = <<0>>
    /\ RaisedCases # {}
    /\ \E k \in 1..Len(out) : out[k][1] = "status" /\ out[k][2] = "FAIL"

IsSortedStrict(s) == \A j, k \in 1..Len(s) : j < k => s[j] < s[k]

\* results is the in-order list of the processed cases that did not raise
ResultsInOrder ==
    /\ \A k \in 1..Len(processed) : processed[k][1] = k
    /\ ResultCases = OkCases
    /\ IsSortedStrict(ResultCases)
    /\ \A k \in 1..Len(results) :
         results[k].expect_unk = test_cases[ResultCases[k]].expect_unk

\* the summary names the results in the order of the list
SummaryInOrder ==
    (pc = "exited" /\ MainEntered) =>
        LET status == LinesOfKind(out, "status")
            counts == LinesOfKind(out, "counts")
        IN  /\ Len(status) = Len(results) /\ Len(counts) = Len(results)
            /\ \A k \in 1..Len(results) :
                 /\ status[k][3] = results[k].model
                 /\ status[k][4] = results[k].language
                 /\ counts[k][2] = results[k].token_count
                 /\ counts[k][3] = results[k].unk_count

\* entries are appended, never removed, reordered or overwritten
AppendOnly ==
    \/ results' = results
    \/ /\ Len(results') = Len(results) + 1
       /\ SubSeq(results', 1, Len(results)) = results

\* C7: at every point of the loop results is the in-order list of the processed
\* cases that did not raise, it only grows by appending, each case contributes at
\* most one entry, and the summary lists the results in the same order.
C7_AppendInOrder == [](ResultsInOrder /\ SummaryInOrder) /\ [][AppendOnly]_vars

\* a summary of three results, taken from cases 2, 3 and 5
C7_Witness ==
    /\ pc = "exited"
    /\ ResultCases = <<2, 3, 5>>
    /\ LET status == LinesOfKind(out, "status")
       IN  [k \in 1..Len(status) |-> status[k][4]]
             = <<"Kannada", "Tamil", "Hindi (Devanagari)">>

----------------------------------------------------------------------------
(* Properties of create_token.py *)

\* the statements in front of st in the file
Before(st) == SubSeq(Statements, 1, StatementIndex(st) - 1)

InTrail(st) == \E k \in 1..Len(trail) : trail[k] = st

\* each name is bound exactly when the statement that assigns it has completed
BoundAsCompleted ==
    /\ (slow_tokenizer.kind # "unset") <=> InTrail("load_slow")
    /\ (fast_tokenizer.kind # "unset") <=> InTrail("load_fast")
    /\ (tokenizer.kind # "unset")      <=> InTrail("reload")
    /\ (model.kind # "unset")          <=> InTrail("load_model")
    /\ (inputs.kind # "unset")         <=> InTrail("encode")
    /\ (outputs.kind # "unset")        <=> InTrail("forward")
    /\ HasLine(out, "tokenized_input") <=> InTrail("print_inputs")
    /\ HasLine(out, "model_output")    <=> InTrail("print_outputs")
    /\ InTrail("save") => disk.kind = "directory" /\ disk.run = "this"

\* C4: a failure of any statement is fatal: the statements before it have run
\* once each, no later statement runs, nothing more happens, and the exit status
\* is non-zero.
C4_FailureIsFatal ==
    \A k \in 1..Len(out) :
        out[k][1] = "traceback" =>
            /\ k = Len(out)
            /\ cpc = "crashed"
            /\ exit_code # <<>> /\ exit_code[1] # 0
            /\ trail = Before(out[k][2])
            /\ BoundAsCompleted
            /\ ~ENABLED NextConv

\* the reload from disk raised after a successful save
C4_Witness ==
    /\ cpc = "crashed"
    /\ out = << <<"traceback", "reload">> >>
    /\ disk.kind = "directory" /\ disk.run = "this"
    /\ tokenizer.kind = "unset"
    /\ exit_code = <<1>>

IsPrefix(s, t) == Len(s) <= Len(t) /\ SubSeq(t, 1, Len(s)) = s

\* C10: the statements run in the order of the file; the tokenizer is read back
\* only from a directory this run has saved; the sample sentence is encoded with
\* the handle read from disk; the forward pass runs on that encoding; the two
\* prints come after the forward pass, the encoding first.
C10_StepOrder ==
    /\ IsPrefix(trail, Statements)
    /\ BoundAsCompleted
    /\ tokenizer.kind # "unset" =>
         /\ InTrail("save")
         /\ tokenizer.source = LocalDir
         /\ tokenizer.written_by = "this"
    /\ inputs.kind # "unset" =>
         /\ tokenizer.kind # "unset"
         /\ inputs.by = tokenizer
         /\ inputs.by.source = LocalDir
         /\ inputs.by.source # fast_tokenizer.source
         /\ inputs.text = SampleText
    /\ outputs.kind # "unset" =>
         /\ model.kind # "unset"
         /\ outputs.of = inputs
         /\ outputs.model = model
    /\ (cpc \notin {"crashed"} /\ out # <<>>) =>
         /\ InTrail("forward")
         /\ out[1] = <<"tokenized_input", inputs>>
         /\ Len(out) = 2 => out[2] = <<"model_output", outputs>>
         /\ Len(out) <= 2
    /\ cpc = "exited" => trail = Statements /\ Len(out) = 2 /\ exit_code = <<0>>

\* a complete run: every statement ran, in order, and the script exited 0
C10_Witness ==
    /\ cpc = "exited"
    /\ trail = Statements
    /\ exit_code = <<0>>
    /\ inputs.by = tokenizer
    /\ disk.run = "this"
    /\ Len(out) = 2

====
